---------------------------- MODULE Spec2Model ----------------------------
(***************************************************************************)
(* A model of the hparams package (DeepLearnI/hparams):                    *)
(*                                                                         *)
(*   - hparams/localconfig/utils.py: the type-hint parser                  *)
(*     (parse_type_hint), the validator (validate_type) and the coercer    *)
(*     (coerce_to_type), as pure operators over Python values;             *)
(*   - hparams/hparams.py: the HParams constructor, as a multi-process     *)
(*     state machine over a shared file system.                            *)
(*                                                                         *)
(* Python strings are sequences of one-character strings.  A Python value  *)
(* is a record [k |-> kind, v |-> payload] where kind is the name of the   *)
(* value's class.                                                          *)
(***************************************************************************)
EXTENDS Integers, Sequences, FiniteSets, TLC

(***************************************************************************)
(* Python str primitives                                                   *)
(***************************************************************************)

Upper == <<"A","B","C","D","E","F","G","H","I","J","K","L","M",
           "N","O","P","Q","R","S","T","U","V","W","X","Y","Z">>

LowerAlpha == <<"a","b","c","d","e","f","g","h","i","j","k","l","m",
                "n","o","p","q","r","s","t","u","v","w","x","y","z">>

Digits == <<"0","1","2","3","4","5","6","7","8","9">>

IsSpace(c) == c \in {" ", "\t", "\n"}

IsDigit(c) == \E i \in 1..Len(Digits) : Digits[i] = c

DigitVal(c) == (CHOOSE i \in 1..Len(Digits) : Digits[i] = c) - 1

\* one character of str.lower()
LowerChar(c) ==
    IF \E i \in 1..Len(Upper) : Upper[i] = c
    THEN LowerAlpha[CHOOSE i \in 1..Len(Upper) : Upper[i] = c]
    ELSE c

\* str.lower()
Lower(s) == [i \in 1..Len(s) |-> LowerChar(s[i])]

\* s[a:b] with 0-based, already non-negative bounds (Python slice semantics)
Slice(s, a, b) ==
    LET hi == IF b > Len(s) THEN Len(s) ELSE b
    IN  IF a >= hi THEN << >> ELSE SubSeq(s, a + 1, hi)

\* s[a:-1]
SliceToLast(s, a) == Slice(s, a, IF Len(s) = 0 THEN 0 ELSE Len(s) - 1)

\* str.strip()
Strip(s) ==
    LET nonsp == {i \in 1..Len(s) : ~IsSpace(s[i])}
    IN  IF nonsp = {} THEN << >>
        ELSE LET lo == CHOOSE i \in nonsp : \A j \in nonsp : i <= j
                 hi == CHOOSE i \in nonsp : \A j \in nonsp : j <= i
             IN  SubSeq(s, lo, hi)

\* c in s
Contains(s, c) == \E i \in 1..Len(s) : s[i] = c

\* s.index(c), 0-based; only used where c in s
IndexOf(s, c) ==
    (CHOOSE i \in 1..Len(s) : s[i] = c /\ \A j \in 1..(i - 1) : s[j] # c) - 1

\* s.startswith(p)
StartsWith(s, p) == Len(s) >= Len(p) /\ SubSeq(s, 1, Len(p)) = p

\* s.endswith(p)
EndsWith(s, p) == Len(s) >= Len(p) /\ SubSeq(s, Len(s) - Len(p) + 1, Len(s)) = p

\* s.split(c) for a one-character separator: always at least one part
RECURSIVE Split(_, _)
Split(s, c) ==
    IF ~Contains(s, c) THEN <<s>>
    ELSE LET i == IndexOf(s, c)
         IN  <<Slice(s, 0, i)>> \o Split(Slice(s, i + 1, Len(s)), c)

(***************************************************************************)
(* utils.py: TYPE_MAP                                                      *)
(***************************************************************************)

s_int      == <<"i","n","t">>
s_float    == <<"f","l","o","a","t">>
s_str      == <<"s","t","r">>
s_bool     == <<"b","o","o","l">>
s_list     == <<"l","i","s","t">>
s_dict     == <<"d","i","c","t">>
s_none     == <<"n","o","n","e">>
s_None     == <<"N","o","n","e">>
s_Optional == <<"O","p","t","i","o","n","a","l","[">>

\* marks the Python None that dict.get returns for a missing key
Missing == "<missing>"

TYPE_MAP ==
    (s_int   :> "int")  @@ (s_float :> "float") @@ (s_str  :> "str") @@
    (s_bool  :> "bool") @@ (s_list  :> "list")  @@ (s_dict :> "dict") @@
    (s_none  :> "NoneType") @@ (s_None :> "NoneType")

\* TYPE_MAP.get(name)
TypeMapGet(name) == IF name \in DOMAIN TYPE_MAP THEN TYPE_MAP[name] ELSE Missing


(***************************************************************************)
(* utils.py: parse_type_hint                                               *)
(*                                                                         *)
(* The result is a record: ok = TRUE with the returned tuple               *)
(* (base_types, is_optional, inner_types), where has_inner = FALSE stands  *)
(* for inner_types = None; or ok = FALSE for a raised TypeError, with the  *)
(* message kind and the token the message names.                           *)
(***************************************************************************)

ParseOk(base_types, is_optional, has_inner, inner_types) ==
    [ok |-> TRUE, base_types |-> base_types, is_optional |-> is_optional,
     has_inner |-> has_inner, inner_types |-> inner_types,
     exc |-> "", msg |-> "", token |-> << >>]

ParseRaise(msg, token) ==
    [ok |-> FALSE, base_types |-> << >>, is_optional |-> FALSE,
     has_inner |-> FALSE, inner_types |-> << >>,
     exc |-> "TypeError", msg |-> msg, token |-> token]

\* [p.strip() for p in s.split(c)]
SplitStrip(s, c) == LET ps == Split(s, c) IN [i \in 1..Len(ps) |-> Strip(ps[i])]

\* lines 90-106: the pipe-union branch, on the stripped hint
ParseUnion(type_str) ==
    LET parts   == SplitStrip(type_str, "|")
        isNone(i) == Lower(parts[i]) = s_none
        unknown == {i \in 1..Len(parts) :
                       ~isNone(i) /\ TypeMapGet(Lower(parts[i])) = Missing}
        kept    == SelectSeq(parts, LAMBDA p : Lower(p) # s_none)
    IN  IF unknown # {}
        THEN ParseRaise("Unknown type",
                        parts[CHOOSE i \in unknown : \A j \in unknown : i <= j])
        ELSE IF kept = << >>
        THEN ParseRaise("Union type must have at least one non-None type", type_str)
        ELSE ParseOk([i \in 1..Len(kept) |-> TypeMapGet(Lower(kept[i]))],
                     \E i \in 1..Len(parts) : isNone(i), FALSE, << >>)

\* lines 114-133: the generic-container branch
ParseGeneric(type_str, is_optional) ==
    LET idx         == IndexOf(type_str, "[")
        base_name   == Slice(type_str, 0, idx)
        inner_str   == Strip(SliceToLast(type_str, idx + 1))
        base_type   == TypeMapGet(Lower(base_name))
        inner_parts == SplitStrip(inner_str, ",")
        inner_types == [i \in 1..Len(inner_parts) |->
                           TypeMapGet(Lower(inner_parts[i]))]
        unknown     == {i \in 1..Len(inner_parts) : inner_types[i] = Missing}
    IN  IF base_type = Missing THEN ParseRaise("Unknown type", base_name)
        ELSE IF unknown # {}
        THEN ParseRaise("Unknown inner type",
                        inner_parts[CHOOSE i \in unknown : \A j \in unknown : i <= j])
        ELSE ParseOk(<<base_type>>, is_optional, TRUE, inner_types)

\* lines 135-140: the simple-name branch
ParseSimple(type_str, is_optional) ==
    LET base_type == TypeMapGet(Lower(type_str))
    IN  IF base_type = Missing THEN ParseRaise("Unknown type", type_str)
        ELSE ParseOk(<<base_type>>, is_optional, FALSE, << >>)

\* lines 108-111: does the Optional[...] branch apply
IsOptionalWrapper(type_str) ==
    StartsWith(type_str, s_Optional) /\ EndsWith(type_str, <<"]">>)

\* line 111: type_str[9:-1].strip()
StripOptional(type_str) == Strip(SliceToLast(type_str, 9))

parse_type_hint(hint) ==
    LET type_str == Strip(hint)
    IN  IF Contains(type_str, "|") THEN ParseUnion(type_str)
        ELSE LET is_optional == IsOptionalWrapper(type_str)
                 rest == IF is_optional THEN StripOptional(type_str) ELSE type_str
             IN  IF Contains(rest, "[") THEN ParseGeneric(rest, is_optional)
                 ELSE ParseSimple(rest, is_optional)


(***************************************************************************)
(* Python values                                                           *)
(*                                                                         *)
(* A float is <<class, num, den>>: class 0 is the finite number num/den    *)
(* with den a power of ten and no trailing zero in num (when den > 1),     *)
(* class 1 is inf, class -1 is -inf and class 2 is nan.  A dict is the     *)
(* sequence of its <<key, value>> entries in insertion order.              *)
(***************************************************************************)

MkInt(n)   == [k |-> "int",   v |-> n]
MkBool(b)  == [k |-> "bool",  v |-> b]
MkStr(s)   == [k |-> "str",   v |-> s]
MkList(es) == [k |-> "list",  v |-> es]
MkDict(kv) == [k |-> "dict",  v |-> kv]
PyNone     == [k |-> "NoneType", v |-> 0]

RECURSIVE Normalise(_, _)
Normalise(num, den) ==
    IF den > 1 /\ num % 10 = 0 THEN Normalise(num \div 10, den \div 10)
    ELSE <<0, num, den>>

MkFloat(num, den) == [k |-> "float", v |-> Normalise(num, den)]
PyInf             == [k |-> "float", v |-> <<1, 0, 1>>]
PyNegInf          == [k |-> "float", v |-> <<-1, 0, 1>>]
PyNan             == [k |-> "float", v |-> <<2, 0, 1>>]

\* isinstance(value, t) for the classes of TYPE_MAP: bool is a subclass of int
IsInstance(value, t) == value.k = t \/ (t = "int" /\ value.k = "bool")

Abs(n) == IF n < 0 THEN 0 - n ELSE n

\* the int a bool stands for
IntOf(value) == IF value.k = "bool" THEN (IF value.v THEN 1 ELSE 0) ELSE value.v

(***************************************************************************)
(* str(value): the printed form                                            *)
(***************************************************************************)

RECURSIVE NatStr(_)
NatStr(n) ==
    IF n < 10 THEN <<Digits[n + 1]>>
    ELSE NatStr(n \div 10) \o <<Digits[(n % 10) + 1]>>

IntStr(n) == IF n < 0 THEN <<"-">> \o NatStr(0 - n) ELSE NatStr(n)

RECURSIVE FracStr(_, _)
\* the digits of num below den (a power of ten), zero padded
FracStr(num, den) ==
    IF den = 1 THEN << >>
    ELSE <<Digits[(num \div (den \div 10)) + 1]>>
         \o FracStr(num % (den \div 10), den \div 10)

FloatStr(f) ==
    IF f[1] = 1 THEN <<"i","n","f">>
    ELSE IF f[1] = -1 THEN <<"-","i","n","f">>
    ELSE IF f[1] = 2 THEN <<"n","a","n">>
    ELSE LET a == Abs(f[2])
             sign == IF f[2] < 0 THEN <<"-">> ELSE << >>
         IN  sign \o NatStr(a \div f[3]) \o <<".">> \o
             (IF f[3] = 1 THEN <<"0">> ELSE FracStr(a % f[3], f[3]))

RECURSIVE JoinStr(_, _)
JoinStr(parts, sep) ==
    IF parts = << >> THEN << >>
    ELSE IF Len(parts) = 1 THEN parts[1]
    ELSE parts[1] \o sep \o JoinStr(Tail(parts), sep)

RECURSIVE PyRepr(_)
\* repr(value); the strings of the model hold no quote, backslash or control
\* character, so a str prints between single quotes as it is
PyRepr(value) ==
    CASE value.k = "int"      -> IntStr(value.v)
      [] value.k = "bool"     -> IF value.v THEN <<"T","r","u","e">>
                                 ELSE <<"F","a","l","s","e">>
      [] value.k = "float"    -> FloatStr(value.v)
      [] value.k = "str"      -> <<"'">> \o value.v \o <<"'">>
      [] value.k = "NoneType" -> s_None
      [] value.k = "list"     ->
            <<"[">> \o JoinStr([i \in 1..Len(value.v) |-> PyRepr(value.v[i])],
                               <<",", " ">>) \o <<"]">>
      [] value.k = "dict"     ->
            <<"{">> \o JoinStr([i \in 1..Len(value.v) |->
                                   PyRepr(value.v[i][1]) \o <<":", " ">>
                                   \o PyRepr(value.v[i][2])],
                               <<",", " ">>) \o <<"}">>

\* str(value)
PyStr(value) == IF value.k = "str" THEN value.v ELSE PyRepr(value)


(***************************************************************************)
(* The constructors coerce_to_type calls: int(), float(), bool(), list(),  *)
(* dict(), str() and NoneType().  Each returns [ok, val, exc]: the value,  *)
(* or the class of the exception the constructor raises.                   *)
(***************************************************************************)

Made(value) == [ok |-> TRUE,  val |-> <<value>>, exc |-> ""]
Raised(exc) == [ok |-> FALSE, val |-> << >>,     exc |-> exc]

AllDigits(s) == s # << >> /\ \A i \in 1..Len(s) : IsDigit(s[i])

RECURSIVE DigitsVal(_)
DigitsVal(s) ==
    IF s = << >> THEN 0
    ELSE 10 * DigitsVal(SubSeq(s, 1, Len(s) - 1)) + DigitVal(s[Len(s)])

RECURSIVE Pow10(_)
Pow10(n) == IF n = 0 THEN 1 ELSE 10 * Pow10(n - 1)

HasSign(s) == s # << >> /\ s[1] \in {"+", "-"}

Unsigned(s) == IF HasSign(s) THEN Tail(s) ELSE s

Signed(s, n) == IF HasSign(s) /\ s[1] = "-" THEN 0 - n ELSE n

\* int(value).  The strings of the model hold no underscore.
PyIntCtor(value) ==
    CASE value.k \in {"int", "bool"} -> Made(MkInt(IntOf(value)))
      [] value.k = "float" ->
            IF value.v[1] \in {1, -1} THEN Raised("OverflowError")
            ELSE IF value.v[1] = 2 THEN Raised("ValueError")
            ELSE LET q == Abs(value.v[2]) \div value.v[3]
                 IN  Made(MkInt(IF value.v[2] < 0 THEN 0 - q ELSE q))
      [] value.k = "str" ->
            LET t == Strip(value.v)
            IN  IF AllDigits(Unsigned(t))
                THEN Made(MkInt(Signed(t, DigitsVal(Unsigned(t)))))
                ELSE Raised("ValueError")
      [] OTHER -> Raised("TypeError")

\* float(value).  The strings of the model hold no exponent or underscore.
PyFloatCtor(value) ==
    CASE value.k \in {"int", "bool"} -> Made(MkFloat(IntOf(value), 1))
      [] value.k = "float" -> Made(value)
      [] value.k = "str" ->
            LET t     == Strip(value.v)
                u     == Unsigned(t)
                neg   == HasSign(t) /\ t[1] = "-"
                parts == Split(u, ".")
                whole == parts[1]
                frac  == IF Len(parts) = 2 THEN parts[2] ELSE << >>
                isDec == /\ Len(parts) <= 2
                         /\ whole \o frac # << >>
                         /\ \A i \in 1..Len(whole) : IsDigit(whole[i])
                         /\ \A i \in 1..Len(frac) : IsDigit(frac[i])
            IN  IF Lower(u) \in {<<"i","n","f">>,
                                 <<"i","n","f","i","n","i","t","y">>}
                THEN Made(IF neg THEN PyNegInf ELSE PyInf)
                ELSE IF Lower(u) = <<"n","a","n">> THEN Made(PyNan)
                ELSE IF isDec
                THEN Made(MkFloat(Signed(t, DigitsVal(whole \o frac)),
                                  Pow10(Len(frac))))
                ELSE Raised("ValueError")
      [] OTHER -> Raised("TypeError")

\* bool(value): truth value testing
PyBoolCtor(value) ==
    CASE value.k = "bool"     -> Made(value)
      [] value.k = "int"      -> Made(MkBool(value.v # 0))
      [] value.k = "float"    -> Made(MkBool(~(value.v[1] = 0 /\ value.v[2] = 0)))
      [] value.k = "NoneType" -> Made(MkBool(FALSE))
      [] OTHER                -> Made(MkBool(value.v # << >>))

\* the items iterating over a value yields; only for str, list and dict
IterItems(value) ==
    CASE value.k = "str"  -> [i \in 1..Len(value.v) |-> MkStr(<<value.v[i]>>)]
      [] value.k = "list" -> value.v
      [] value.k = "dict" -> [i \in 1..Len(value.v) |-> value.v[i][1]]

Iterable(value) == value.k \in {"str", "list", "dict"}

\* list(value)
PyListCtor(value) ==
    IF Iterable(value) THEN Made(MkList(IterItems(value))) ELSE Raised("TypeError")

\* key equality of a dict: 1, 1.0 and True are one key
KeyEq(a, b) ==
    LET num(x) == IF x.k \in {"int", "bool"} THEN <<0, IntOf(x), 1>> ELSE x.v
        isNum(x) == x.k \in {"int", "bool", "float"}
    IN  IF isNum(a) /\ isNum(b) THEN num(a) = num(b) /\ num(a)[1] # 2
        ELSE a = b

RECURSIVE DictUpdate(_, _, _)
\* d[key] = val on the entries of a dict
DictUpdate(entries, key, val) ==
    IF entries = << >> THEN << <<key, val>> >>
    ELSE IF KeyEq(entries[1][1], key) THEN << <<entries[1][1], val>> >> \o Tail(entries)
    ELSE <<entries[1]>> \o DictUpdate(Tail(entries), key, val)

RECURSIVE DictFromPairs(_, _)
\* dict(iterable): every item must be an iterable of two items whose first is hashable
DictFromPairs(items, entries) ==
    IF items = << >> THEN Made(MkDict(entries))
    ELSE LET e == items[1]
         IN  IF ~Iterable(e) THEN Raised("TypeError")
             ELSE IF Len(IterItems(e)) # 2 THEN Raised("ValueError")
             ELSE IF IterItems(e)[1].k \in {"list", "dict"} THEN Raised("TypeError")
             ELSE DictFromPairs(Tail(items),
                                DictUpdate(entries, IterItems(e)[1], IterItems(e)[2]))

\* dict(value)
PyDictCtor(value) ==
    IF value.k = "dict" THEN Made(value)
    ELSE IF Iterable(value) THEN DictFromPairs(IterItems(value), << >>)
    ELSE Raised("TypeError")

\* base_type(value) for a class of TYPE_MAP; NoneType takes no arguments
Construct(base_type, value) ==
    CASE base_type = "int"   -> PyIntCtor(value)
      [] base_type = "float" -> PyFloatCtor(value)
      [] base_type = "str"   -> Made(MkStr(PyStr(value)))
      [] base_type = "bool"  -> PyBoolCtor(value)
      [] base_type = "list"  -> PyListCtor(value)
      [] base_type = "dict"  -> PyDictCtor(value)
      [] OTHER               -> Raised("TypeError")

(***************************************************************************)
(* utils.py: is_bool, to_bool                                              *)
(***************************************************************************)

BoolTrue  == {<<"t","r","u","e">>, <<"y","e","s">>, <<"o","n">>}
BoolFalse == {<<"f","a","l","s","e">>, <<"n","o">>, <<"o","f","f">>}

is_bool(s) == Lower(s) \in BoolTrue \cup BoolFalse

to_bool(s) == Lower(s) \in BoolTrue


(***************************************************************************)
(* utils.py: validate_type                                                 *)
(*                                                                         *)
(* The result is [ok |-> TRUE] for "return True", or the raised TypeError: *)
(* which raise statement (reason), the class names the message lists       *)
(* (expected), the class of the offending value (actual), the list index   *)
(* and the value or key the message prints (at).  matched_type is the      *)
(* local of that name when the function is left, "" standing for None.     *)
(***************************************************************************)

Valid ==
    [ok |-> TRUE, exc |-> "", reason |-> "", expected |-> << >>,
     actual |-> "", index |-> -1, at |-> << >>, matched_type |-> ""]

Invalid(reason, expected, actual, index, at) ==
    [ok |-> FALSE, exc |-> "TypeError", reason |-> reason, expected |-> expected,
     actual |-> actual, index |-> index, at |-> at, matched_type |-> ""]

\* MatchesBase without line 171: an int no longer matches float
MatchesBaseNoWidening(value, base_type) == IsInstance(value, base_type)

\* lines 171 and 175: does the value match one base type of the loop
MatchesBase(value, base_type) ==
    \/ base_type = "float" /\ (IsInstance(value, "int") \/ IsInstance(value, "float"))
    \/ IsInstance(value, base_type)

\* lines 166-178: the index of the base type the loop breaks on, 0 for none
MatchedIndex(value, base_types) ==
    LET hits == {i \in 1..Len(base_types) : MatchesBase(value, base_types[i])}
    IN  IF hits = {} THEN 0 ELSE CHOOSE i \in hits : \A j \in hits : i <= j

\* lines 191-194: does a list item pass
ItemOk(item, item_type) ==
    IsInstance(item, item_type) \/ (item_type = "float" /\ IsInstance(item, "int"))

\* lines 188-198
CheckList(value, inner_types) ==
    LET item_type == inner_types[1]
        bad == {i \in 1..Len(value.v) : ~ItemOk(value.v[i], item_type)}
    IN  IF bad = {} THEN Valid
        ELSE LET i == CHOOSE i \in bad : \A j \in bad : i <= j
             IN  Invalid("list_item", <<item_type>>, value.v[i].k, i - 1,
                         <<value.v[i]>>)

\* KeyOk with the int-for-float allowance of lines 193 and 213 given to keys too
KeyOkWidened(key, key_type) ==
    IsInstance(key, key_type) \/ (key_type = "float" /\ IsInstance(key, "int"))

\* line 206
KeyOk(key, key_type) == IsInstance(key, key_type)

\* lines 211-214; has_value_type = FALSE stands for value_type = None
ValueOk(val, has_value_type, value_type) ==
    \/ ~has_value_type
    \/ IsInstance(val, value_type)
    \/ value_type = "float" /\ IsInstance(val, "int")

\* lines 201-218
CheckDict(value, inner_types) ==
    LET key_type   == inner_types[1]
        has_vt     == Len(inner_types) > 1
        value_type == IF has_vt THEN inner_types[2] ELSE Missing
        bad == {i \in 1..Len(value.v) :
                   \/ ~KeyOk(value.v[i][1], key_type)
                   \/ ~ValueOk(value.v[i][2], has_vt, value_type)}
    IN  IF bad = {} THEN Valid
        ELSE LET i == CHOOSE i \in bad : \A j \in bad : i <= j
                 e == value.v[i]
             IN  IF ~KeyOk(e[1], key_type)
                 THEN Invalid("dict_key", <<key_type>>, e[1].k, -1, <<e[1]>>)
                 ELSE Invalid("dict_value", <<value_type>>, e[2].k, -1, <<e[1], e[2]>>)

validate_type(value, type_hint) ==
    LET p == parse_type_hint(type_hint)
        m == MatchedIndex(value, p.base_types)
    IN  IF ~p.ok THEN Invalid("parse", << >>, "", -1, << >>)
        ELSE IF value.k = "NoneType"
        THEN (IF p.is_optional THEN Valid
              ELSE Invalid("none_not_optional", << >>, "NoneType", -1, << >>))
        ELSE IF m = 0
        THEN Invalid("mismatch", p.base_types, value.k, -1, <<value>>)
        ELSE LET r == IF p.has_inner /\ p.base_types[m] = "list"
                      THEN CheckList(value, p.inner_types)
                      ELSE IF p.has_inner /\ p.base_types[m] = "dict"
                      THEN CheckDict(value, p.inner_types)
                      ELSE Valid
             IN  [r EXCEPT !.matched_type = p.base_types[m]]

(***************************************************************************)
(* utils.py: coerce_to_type                                                *)
(*                                                                         *)
(* The result is [ok |-> TRUE, val |-> <<returned value>>], or the         *)
(* exception that leaves the function: its class and the statement that    *)
(* raised it.                                                              *)
(***************************************************************************)

Coerced(value) == [ok |-> TRUE, val |-> <<value>>, exc |-> "", reason |-> ""]

CoerceRaise(exc, reason) == [ok |-> FALSE, val |-> << >>, exc |-> exc, reason |-> reason]

\* lines 246-248: the fast path returns the value when it is an instance of a base type
AlreadyTyped(value, base_types) ==
    \E i \in 1..Len(base_types) : IsInstance(value, base_types[i])

\* lines 263-268: only ValueError and TypeError are caught and raised again as TypeError
DirectConversion(base_type, value) ==
    LET r == Construct(base_type, value)
    IN  IF r.ok THEN Coerced(r.val[1])
        ELSE IF r.exc \in {"ValueError", "TypeError"}
        THEN CoerceRaise("TypeError", "cannot_coerce")
        ELSE CoerceRaise(r.exc, "uncaught")

\* lines 250-268: conversion to the first base type
ConvertToFirst(value, base_type) ==
    IF base_type = "float" /\ IsInstance(value, "int")
    THEN Coerced(PyFloatCtor(value).val[1])
    ELSE IF base_type = "bool" /\ IsInstance(value, "str") /\ is_bool(value.v)
    THEN Coerced(MkBool(to_bool(value.v)))
    ELSE DirectConversion(base_type, value)

coerce_to_type(value, type_hint) ==
    LET p == parse_type_hint(type_hint)
    IN  IF ~p.ok THEN CoerceRaise("TypeError", "parse")
        ELSE IF value.k = "NoneType"
        THEN (IF p.is_optional THEN Coerced(value)
              ELSE CoerceRaise("TypeError", "none_not_optional"))
        ELSE IF AlreadyTyped(value, p.base_types) THEN Coerced(value)
        ELSE ConvertToFirst(value, p.base_types[1])


(***************************************************************************)
(* Bounds and the inputs the functions are applied to                      *)
(***************************************************************************)

MaxInner == 2       \* inner type names of a generic hint
MaxUnion == 2       \* members of a pipe union
MaxWrap  == 2       \* nested Optional[...] wrappers of a parsed hint
MaxListLen == 2     \* items of a list value
MaxDictLen == 2     \* entries of a dict value

\* the non-empty sequences over S of at most n items
SeqsUpTo(S, n) == UNION {[1..m -> S] : m \in 1..n}

s_foo == <<"f","o","o">>

\* Optional[h]
Wrap(h) == s_Optional \o h \o <<"]">>

RECURSIVE Wraps(_, _)
\* the hints of H, each under at most n Optional[...] wrappers
Wraps(H, n) == IF n = 0 THEN H ELSE H \cup {Wrap(h) : h \in Wraps(H, n - 1)}

\* base[inner sep inner ...closer
Generic(base, inners, sep, closer) ==
    base \o <<"[">> \o JoinStr(inners, sep) \o closer

\* hint strings for the parser: names of the vocabulary in several letter
\* cases, unknown names, generics closed by "]", by another character, by
\* nothing or twice, unions, and Optional[...] wrappers around all of them
ParseNames ==
    {s_int, s_float, s_str, s_bool, s_list, s_dict, s_none, s_None,
     <<"N","O","N","E">>, <<"I","n","t">>, s_foo, << >>, <<" ">> \o s_int \o <<" ">>}

ParseGenerics ==
    {Generic(b, ins, sep, cl) :
        b   \in {s_list, s_dict, <<"L","i","s","t">>, s_None, s_foo},
        ins \in SeqsUpTo({s_int, s_str, s_None, s_foo}, MaxInner),
        sep \in {<<",">>, <<",", " ">>},
        cl  \in {<<"]">>, <<"x">>, << >>, <<"]", "]">>}}

ParseUnions ==
    {JoinStr(ps, sep) :
        ps  \in SeqsUpTo({s_int, s_str, s_none, s_None, s_foo}, MaxUnion),
        sep \in {<<"|">>, <<" ", "|", " ">>}}

ParseHints == Wraps(ParseNames \cup ParseGenerics \cup ParseUnions, MaxWrap)

\* hints for the validator and the coercer: every class of TYPE_MAP, list and
\* dict generics, unions, each also under Optional[...]
TypeNames == {s_int, s_float, s_str, s_bool, s_list, s_dict, s_None}

TypeGenerics ==
    {Generic(b, ins, <<",", " ">>, <<"]">>) :
        b   \in {s_list, s_dict},
        ins \in SeqsUpTo({s_int, s_float, s_str}, MaxInner)}

TypeUnions ==
    {JoinStr(ps, <<" ", "|", " ">>) :
        ps \in SeqsUpTo({s_int, s_float, s_str, s_none}, MaxUnion)}

TypeHints == Wraps(TypeNames \cup TypeGenerics \cup TypeUnions, 1)

\* values: scalars of every class, lists and dicts of scalars
Scalars ==
    {MkInt(0), MkInt(5), MkInt(-3),
     MkFloat(0, 1), MkFloat(25, 10), MkFloat(5, 1), PyInf, PyNan,
     MkBool(TRUE), MkBool(FALSE), PyNone,
     MkStr(<< >>), MkStr(<<"4","2">>), MkStr(<<"3",".","5">>),
     MkStr(<<"y","e","s">>), MkStr(<<"N","o">>), MkStr(<<"a","b","c">>),
     MkStr(<<" ","7"," ">>), MkStr(<<"a","b">>)}

Items == {MkInt(1), MkFloat(25, 10), MkStr(<<"a","b">>), MkBool(TRUE)}

Lists ==
    {MkList(<< >>), MkList(<<MkList(<<MkInt(1), MkFloat(25, 10)>>)>>)}
    \cup {MkList(es) : es \in SeqsUpTo(Items, MaxListLen)}

DictKeys == <<MkInt(1), MkStr(<<"a">>), MkFloat(25, 10)>>

DictVals == {MkInt(1), MkFloat(25, 10), MkStr(<<"x">>)}

\* the dicts over DictKeys, their entries in the order of DictKeys
Dicts ==
    {MkDict(<< >>)} \cup
    {MkDict([i \in 1..Len(e) |-> <<DictKeys[e[i][1]], e[i][2]>>]) : e \in
        {e \in SeqsUpTo((1..Len(DictKeys)) \X DictVals, MaxDictLen) :
            \A i \in 1..(Len(e) - 1) : e[i][1] < e[i + 1][1]}}

Values == Scalars \cup Lists \cup Dicts


(***************************************************************************)
(* State                                                                   *)
(*                                                                         *)
(* hint, value: the arguments; step: how far the calls below have got;     *)
(* desc, wrapped, vres, cres, rres: what the calls returned or raised.     *)
(***************************************************************************)

VARIABLES hint, value, step, desc, wrapped, vres, cres, rres

typeVars == <<hint, value, step, desc, wrapped, vres, cres, rres>>

\* no call made yet
NoParse    == [ParseRaise("", << >>) EXCEPT !.exc = ""]
NoValidate == [Invalid("", << >>, "", -1, << >>) EXCEPT !.exc = ""]
NoCoerce   == CoerceRaise("", "")

TypesIdle ==
    /\ hint = << >> /\ value = PyNone /\ step = "idle"
    /\ desc = NoParse /\ wrapped = NoParse
    /\ vres = NoValidate /\ cres = NoCoerce /\ rres = NoValidate

(***************************************************************************)
(* The parser applied to a hint, and to the same hint under Optional[...]  *)
(***************************************************************************)

ParseInit ==
    /\ hint \in ParseHints /\ value = PyNone /\ step = "start"
    /\ desc = NoParse /\ wrapped = NoParse
    /\ vres = NoValidate /\ cres = NoCoerce /\ rres = NoValidate

\* parse_type_hint(hint)
Parse ==
    /\ step = "start"
    /\ desc' = parse_type_hint(hint)
    /\ step' = "parsed"
    /\ UNCHANGED <<hint, value, wrapped, vres, cres, rres>>

\* parse_type_hint('Optional[' + hint + ']')
ParseWrapped ==
    /\ step = "parsed"
    /\ wrapped' = parse_type_hint(Wrap(hint))
    /\ step' = "done"
    /\ UNCHANGED <<hint, value, desc, vres, cres, rres>>

(***************************************************************************)
(* The validator and the coercer applied to a value and a hint, and the    *)
(* validator applied to what the coercer returned                          *)
(***************************************************************************)

TypesInit ==
    /\ hint \in TypeHints /\ value \in Values /\ step = "start"
    /\ desc = NoParse /\ wrapped = NoParse
    /\ vres = NoValidate /\ cres = NoCoerce /\ rres = NoValidate

\* validate_type(value, hint)
Validate ==
    /\ step = "parsed"
    /\ vres' = validate_type(value, hint)
    /\ step' = "validated"
    /\ UNCHANGED <<hint, value, desc, wrapped, cres, rres>>

\* coerce_to_type(value, hint)
Coerce ==
    /\ step = "validated"
    /\ cres' = coerce_to_type(value, hint)
    /\ step' = "coerced"
    /\ UNCHANGED <<hint, value, desc, wrapped, vres, rres>>

\* validate_type(coerce_to_type(value, hint), hint), when the coercer returned
Revalidate ==
    /\ step = "coerced"
    /\ cres.ok
    /\ rres' = validate_type(cres.val[1], hint)
    /\ step' = "done"
    /\ UNCHANGED <<hint, value, desc, wrapped, vres, cres>>


(***************************************************************************)
(* hparams.py: HParams.__init__                                            *)
(*                                                                         *)
(* One process per global rank, all on the same project_path and run       *)
(* name, so that they share logdir, logfile and the sentinel file.  Each   *)
(* process calls the constructor some number of times, one call after the  *)
(* other; _loaded_hparams_objects is a class attribute, one per process.   *)
(*                                                                         *)
(* fs        the shared files: does logdir exist, the state of logfile     *)
(*           ("absent", "partial" while save_config is writing it,         *)
(*           "written"), does the sentinel file exist, has logfile been    *)
(*           put to the GCS bucket                                         *)
(* pc        where each process is in the constructor ("idle": outside)    *)
(* cur       the call in progress: name, the object under construction,    *)
(*           gcs_backup_project and gcs_backup_bucket (is each given; they *)
(*           are dead once gcs_fs is set), gcs_fs, whether a file has been *)
(*           read or written, the branch of line 50 taken and the state of *)
(*           the logfile that was read                                     *)
(* registry  _loaded_hparams_objects of each process: name -> object,      *)
(*           0 for a name that is not a key                                *)
(* nobj      the constructor calls each process has made; its n-th call    *)
(*           constructs its object n                                       *)
(* first     history: for each process and name, the object of the first   *)
(*           call under that name that returned, 0 for none                *)
(* last      history: how the last call of each process ended              *)
(***************************************************************************)

MaxRank  == 1     \* the processes have global_rank 0..MaxRank
MaxCalls == 3     \* constructor calls of a run, over all processes

Ranks == 0..MaxRank

Names == {"hparams", "aux"}

VARIABLES fs, pc, cur, registry, nobj, first, last

runVars == <<fs, pc, cur, registry, nobj, first, last>>

vars == <<typeVars, runVars>>

FreshFs    == [logdir |-> FALSE, logfile |-> "absent",  sentinel |-> FALSE, gcs |-> FALSE]
ArchivedFs == [logdir |-> TRUE,  logfile |-> "written", sentinel |-> TRUE,  gcs |-> FALSE]

NoCall ==
    [name |-> "", project |-> FALSE, bucket |-> FALSE, obj |-> 0, gcs_fs |-> FALSE,
     io |-> FALSE, branch |-> "", loaded |-> ""]

NoOutcome == [name |-> "", result |-> "", io |-> FALSE, branch |-> "", loaded |-> ""]

RunStart(files) ==
    /\ fs = files
    /\ pc = [r \in Ranks |-> "idle"]
    /\ cur = [r \in Ranks |-> NoCall]
    /\ registry = [r \in Ranks |-> [n \in Names |-> 0]]
    /\ nobj = [r \in Ranks |-> 0]
    /\ first = [r \in Ranks |-> [n \in Names |-> 0]]
    /\ last = [r \in Ranks |-> NoOutcome]

RunIdle == RunStart(FreshFs)

\* a fresh project, or one whose logs hold the archived config of an old run
RunInit == \E files \in {FreshFs, ArchivedFs} : RunStart(files)

RECURSIVE SumTo(_, _)
SumTo(f, r) == IF r < 0 THEN 0 ELSE f[r] + SumTo(f, r - 1)

\* the constructor calls made so far
Calls == SumTo(nobj, MaxRank)

\* NameLoaded with the check of line 22 left out
NameLoadedNever(r, name) == FALSE

\* line 22: name in HParams._loaded_hparams_objects.keys()
NameLoaded(r, name) == registry[r][name] # 0

\* the constructor is left: by an exception (result names it) or by returning ("ok")
Leave(r, result) ==
    /\ pc' = [pc EXCEPT ![r] = "idle"]
    /\ last' = [last EXCEPT ![r] =
                   [name |-> cur[r].name, result |-> result, io |-> cur[r].io,
                    branch |-> cur[r].branch, loaded |-> cur[r].loaded]]
    /\ cur' = [cur EXCEPT ![r] = NoCall]

\* lines 13-23: the call, and the ValueError for a name loaded before
Call(r, name, project, bucket) ==
    /\ pc[r] = "idle"
    /\ Calls < MaxCalls
    /\ nobj' = [nobj EXCEPT ![r] = @ + 1]
    /\ IF NameLoaded(r, name)
       THEN /\ last' = [last EXCEPT ![r] =
                           [NoOutcome EXCEPT
                               !.name = name,
                               !.result = "ValueError: loaded a second time"]]
            /\ UNCHANGED <<pc, cur>>
       ELSE /\ pc' = [pc EXCEPT ![r] = "read"]
            /\ cur' = [cur EXCEPT ![r] =
                          [NoCall EXCEPT !.name = name, !.project = project,
                                         !.bucket = bucket, !.obj = nobj[r] + 1]]
            /\ last' = [last EXCEPT ![r] = NoOutcome]
    /\ UNCHANGED <<fs, registry, first>>

\* lines 27-29: read the project's config file
ReadProjectConfig(r) ==
    /\ pc[r] = "read"
    /\ cur' = [cur EXCEPT ![r].io = TRUE]
    /\ pc' = [pc EXCEPT ![r] = "gcs"]
    /\ UNCHANGED <<fs, registry, nobj, first, last>>

\* lines 31-42: the ValueError for a GCS project without a bucket, else gcs_fs
GcsSetup(r) ==
    /\ pc[r] = "gcs"
    /\ IF cur[r].project /\ ~cur[r].bucket
       THEN Leave(r, "ValueError: GCS bucket must be provided")
       ELSE /\ cur' = [cur EXCEPT ![r].gcs_fs = cur[r].project,
                                 ![r].project = FALSE, ![r].bucket = FALSE]
            /\ pc' = [pc EXCEPT ![r] = "check"]
            /\ UNCHANGED last
    /\ UNCHANGED <<fs, registry, nobj, first>>

\* line 50: isdir(logdir) and isfile(logfile) and isfile(sentinel_file)
ArchiveFound == fs.logdir /\ fs.logfile # "absent" /\ fs.sentinel

\* lines 50, 56, 57, 63: the branch taken
CheckArchive(r) ==
    /\ pc[r] = "check"
    /\ cur' = [cur EXCEPT ![r].branch = IF ArchiveFound THEN "resume" ELSE "new"]
    /\ pc' = [pc EXCEPT ![r] = IF ArchiveFound THEN "resume"
                               ELSE IF r = 0 THEN "makedirs" ELSE "wait"]
    /\ UNCHANGED <<fs, registry, nobj, first, last>>

\* lines 52-55: read the archived config
ReadArchived(r) ==
    /\ pc[r] = "resume"
    /\ cur' = [cur EXCEPT ![r].loaded = fs.logfile]
    /\ pc' = [pc EXCEPT ![r] = "backup"]
    /\ UNCHANGED <<fs, registry, nobj, first, last>>

\* line 58: os.makedirs(logdir, exist_ok=True)
MakeDirs(r) ==
    /\ pc[r] = "makedirs"
    /\ fs' = [fs EXCEPT !.logdir = TRUE]
    /\ pc' = [pc EXCEPT ![r] = "save"]
    /\ UNCHANGED <<cur, registry, nobj, first, last>>

\* line 59: save_config(logfile) opens the file for writing ...
SaveConfigOpen(r) ==
    /\ pc[r] = "save"
    /\ fs' = [fs EXCEPT !.logfile = "partial"]
    /\ pc' = [pc EXCEPT ![r] = "saving"]
    /\ UNCHANGED <<cur, registry, nobj, first, last>>

\* ... and writes the config to it
SaveConfigWrite(r) ==
    /\ pc[r] = "saving"
    /\ fs' = [fs EXCEPT !.logfile = "written"]
    /\ pc' = [pc EXCEPT ![r] = "sentinel"]
    /\ UNCHANGED <<cur, registry, nobj, first, last>>

\* line 60: open(sentinal_file, 'w') names a variable that does not exist
WriteSentinel(r) ==
    /\ pc[r] = "sentinel"
    /\ Leave(r, "NameError: sentinal_file")
    /\ UNCHANGED <<fs, registry, nobj, first>>

\* lines 64-65: the loop condition names a variable that does not exist
WaitForSentinel(r) ==
    /\ pc[r] = "wait"
    /\ Leave(r, "NameError: sentinal_file")
    /\ UNCHANGED <<fs, registry, nobj, first>>

\* lines 74-77: rank 0 puts logfile to the bucket
Backup(r) ==
    /\ pc[r] = "backup"
    /\ IF cur[r].gcs_fs /\ r = 0
       THEN fs' = [fs EXCEPT !.gcs = TRUE]
       ELSE UNCHANGED fs
    /\ pc' = [pc EXCEPT ![r] = "register"]
    /\ UNCHANGED <<cur, registry, nobj, first, last>>

\* lines 79-82: add_to_global_collections(name), and the constructor returns
Register(r) ==
    /\ pc[r] = "register"
    /\ registry' = [registry EXCEPT ![r][cur[r].name] = cur[r].obj]
    /\ first' = [first EXCEPT ![r][cur[r].name] = IF @ = 0 THEN cur[r].obj ELSE @]
    /\ Leave(r, "ok")
    /\ UNCHANGED <<fs, nobj>>

RunNext ==
    \/ \E r \in Ranks, name \in Names, project \in BOOLEAN, bucket \in BOOLEAN :
          Call(r, name, project, bucket) /\ UNCHANGED typeVars
    \/ \E r \in Ranks : ReadProjectConfig(r) /\ UNCHANGED typeVars
    \/ \E r \in Ranks : GcsSetup(r) /\ UNCHANGED typeVars
    \/ \E r \in Ranks : CheckArchive(r) /\ UNCHANGED typeVars
    \/ \E r \in Ranks : ReadArchived(r) /\ UNCHANGED typeVars
    \/ \E r \in Ranks : MakeDirs(r) /\ UNCHANGED typeVars
    \/ \E r \in Ranks : SaveConfigOpen(r) /\ UNCHANGED typeVars
    \/ \E r \in Ranks : SaveConfigWrite(r) /\ UNCHANGED typeVars
    \/ \E r \in Ranks : WriteSentinel(r) /\ UNCHANGED typeVars
    \/ \E r \in Ranks : WaitForSentinel(r) /\ UNCHANGED typeVars
    \/ \E r \in Ranks : Backup(r) /\ UNCHANGED typeVars
    \/ \E r \in Ranks : Register(r) /\ UNCHANGED typeVars

(***************************************************************************)
(* Specifications                                                          *)
(***************************************************************************)

ParseNext ==
    \/ Parse /\ UNCHANGED runVars
    \/ ParseWrapped /\ UNCHANGED runVars

TypesNext ==
    \/ Parse /\ UNCHANGED runVars
    \/ Validate /\ UNCHANGED runVars
    \/ Coerce /\ UNCHANGED runVars
    \/ Revalidate /\ UNCHANGED runVars

\* the parser on every hint of ParseHints
InitParse == ParseInit /\ RunIdle

\* the validator and the coercer on every value of Values and hint of TypeHints
InitTypes == TypesInit /\ RunIdle

\* the constructor calls of the processes of a run
InitRun == TypesIdle /\ RunInit

SpecParse == InitParse /\ [][ParseNext]_vars

SpecTypes == InitTypes /\ [][TypesNext]_vars

SpecRun == InitRun /\ [][RunNext]_vars


(***************************************************************************)
(* Properties                                                              *)
(***************************************************************************)

Parsed    == step \in {"parsed", "validated", "coerced", "done"}
Validated == step \in {"validated", "coerced", "done"}
CoercedBy == step \in {"coerced", "done"}

\* the smallest member of a non-empty set of numbers
Least(S) == CHOOSE i \in S : \A j \in S : i <= j

\* a value is of a kind: its class is the kind, and a bool is an int
OfKind(v, kind) == v.k = kind \/ (kind = "int" /\ v.k = "bool")

\* a value satisfies a kind under numeric widening: an int also satisfies float
Satisfies(v, kind) == OfKind(v, kind) \/ (kind = "float" /\ OfKind(v, "int"))

\* C1: whenever coerce_to_type(value, hint) returns, validate_type accepts
\* what it returned under the same hint.
C1_CoercedValueValidates == step = "done" => rres.ok

\* C2: whenever validate_type(value, hint) succeeds, coerce_to_type(value, hint)
\* returns the value itself, of the same class.
C2_CoerceIdempotent ==
    (CoercedBy /\ vres.ok) => (cres.ok /\ cres.val = <<value>>)

\* C3: the base_types of a successful parse never hold NoneType.
C3_NoneNeverBaseKind ==
    (Parsed /\ desc.ok) =>
        \A i \in 1..Len(desc.base_types) : desc.base_types[i] # "NoneType"

\* C4: when a hint X without "|" parses, Optional[X] parses to the same
\* base_types and inner_types with is_optional true.
C4_OptionalRecurses ==
    (step = "done" /\ ~Contains(hint, "|") /\ desc.ok) =>
        /\ wrapped.ok
        /\ wrapped.is_optional
        /\ wrapped.base_types = desc.base_types
        /\ wrapped.has_inner = desc.has_inner
        /\ wrapped.inner_types = desc.inner_types

\* C5: in validate_type a non-null integer passes the base-type check of every
\* hint whose base types include float; a float is rejected, with a mismatch
\* error listing the declared types, by every hint whose base types are all
\* int; and the matched type is the first base type, in declaration order, that
\* the value satisfies.
C5_NumericWidening ==
    (Validated /\ desc.ok /\ value.k # "NoneType") =>
        LET bts == desc.base_types
            sat == {i \in 1..Len(bts) : Satisfies(value, bts[i])}
        IN  /\ (OfKind(value, "int") /\ \E i \in 1..Len(bts) : bts[i] = "float")
                  => (vres.ok /\ vres.reason # "mismatch")
            /\ (value.k = "float" /\ \A i \in 1..Len(bts) : bts[i] = "int")
                  => /\ ~vres.ok
                     /\ vres.reason = "mismatch"
                     /\ vres.expected = bts
                     /\ vres.actual = "float"
            /\ IF sat = {}
               THEN vres.reason = "mismatch" /\ vres.matched_type = ""
               ELSE vres.reason # "mismatch" /\ vres.matched_type = bts[Least(sat)]

\* an int validated against a union whose second member is float
C5_Witness ==
    /\ step = "validated"
    /\ value.k = "int"
    /\ desc.ok /\ Len(desc.base_types) = 2
    /\ desc.base_types[1] = "str" /\ desc.base_types[2] = "float"
    /\ vres.ok /\ vres.matched_type = "float"

\* C6: a list validates against list[T] iff every item satisfies T, an int
\* satisfying float, and the error names the lowest index of an item that does
\* not; a dict validates against dict[K, V] iff every key is of kind K, with no
\* widening, and every value satisfies V, an int satisfying float; with dict[K]
\* alone the values are not checked.
C6_ContainerElements ==
    (Validated /\ desc.ok /\ desc.has_inner) =>
        LET T == desc.inner_types[1]
            checksV == Len(desc.inner_types) > 1
            V == IF checksV THEN desc.inner_types[2] ELSE ""
            badItems == {i \in 1..Len(value.v) : ~Satisfies(value.v[i], T)}
        IN  /\ (value.k = "list" /\ desc.base_types = <<"list">>) =>
                  /\ vres.ok <=> badItems = {}
                  /\ badItems # {} =>
                        /\ vres.reason = "list_item"
                        /\ vres.index = Least(badItems) - 1
            /\ (value.k = "dict" /\ desc.base_types = <<"dict">>) =>
                  (vres.ok <=>
                      \A i \in 1..Len(value.v) :
                          /\ OfKind(value.v[i][1], T)
                          /\ checksV => Satisfies(value.v[i][2], V))

\* a dict with an int key is rejected by dict[float, ...] for that key
C6_Witness ==
    /\ step = "validated"
    /\ value.k = "dict"
    /\ desc.ok /\ desc.base_types = <<"dict">>
    /\ desc.has_inner /\ desc.inner_types[1] = "float"
    /\ vres.reason = "dict_key"
    /\ vres.at[1].k = "int"

\* C7: for a non-null value that satisfies no base type, coerce_to_type either
\* returns a value of the first base type or fails with the coercion TypeError.
C7_FirstMemberOnly ==
    (/\ CoercedBy /\ desc.ok /\ value.k # "NoneType"
     /\ \A i \in 1..Len(desc.base_types) : ~Satisfies(value, desc.base_types[i]))
    => \/ cres.ok /\ cres.val[1].k = desc.base_types[1]
       \/ ~cres.ok /\ cres.exc = "TypeError" /\ cres.reason = "cannot_coerce"

\* C8: on a run without archived config the sentinel exists only once the
\* config is written; rank 0 ends its call with directory, config and sentinel
\* written; a non-zero rank ends its call having loaded the complete config,
\* or with TimeoutError.
C8_RankBarrier ==
    /\ fs.sentinel => (fs.logdir /\ fs.logfile = "written")
    /\ \A r \in Ranks :
          (last[r].branch = "new") =>
              IF r = 0
              THEN last[r].result = "ok" /\ fs.sentinel
              ELSE \/ last[r].result = "ok" /\ last[r].loaded = "written"
                   \/ last[r].result = "TimeoutError"

\* every name of the registry maps to the first object constructed under it
\* by a call that returned
C9_FirstWins ==
    \A r \in Ranks : \A n \in Names : registry[r][n] = first[r][n]

\* a call under a loaded name raises ValueError with no file read or written
\* and the registry as it was; the registry changes only when a call returns,
\* and only at that call's name, which was no key before; a call that raises
\* leaves the registry as it was, its name still no key unless it was one
C9_Step ==
    \A r \in Ranks :
        /\ (nobj'[r] # nobj[r]) =>
              IF pc'[r] = "idle"
              THEN /\ registry[r][last'[r].name] # 0
                   /\ last'[r].result = "ValueError: loaded a second time"
                   /\ ~last'[r].io
                   /\ fs' = fs
                   /\ registry' = registry
              ELSE registry[r][cur'[r].name] = 0
        /\ (registry'[r] # registry[r]) =>
              /\ pc[r] # "idle" /\ pc'[r] = "idle"
              /\ last'[r].result = "ok"
              /\ \A n \in Names :
                    (registry'[r][n] # registry[r][n]) =>
                        (n = last'[r].name /\ registry[r][n] = 0)
        /\ (pc[r] # "idle" /\ pc'[r] = "idle" /\ last'[r].result # "ok") =>
              /\ registry'[r] = registry[r]
              /\ registry'[r][last'[r].name] = 0

\* C9: each name of _loaded_hparams_objects maps to the first object whose
\* construction under that name completed; a construction under a registered
\* name raises ValueError before any file is read or written and leaves the
\* registry unchanged; a construction that fails does not register its name.
C9_Registry == []C9_FirstWins /\ [][C9_Step]_vars

\* a process has registered "hparams", and its next call under that name was
\* rejected
C9_Witness ==
    \E r \in Ranks :
        /\ registry[r]["hparams"] = 1
        /\ nobj[r] = 2
        /\ last[r].name = "hparams"
        /\ last[r].result = "ValueError: loaded a second time"

\* the shape base[name, name, ...]: "]" is the last character and every name
\* between the first "[" and it is in the vocabulary
Bracketed(t) ==
    /\ Contains(t, "[")
    /\ t[Len(t)] = "]"
    /\ LET names == SplitStrip(SliceToLast(t, IndexOf(t, "[") + 1), ",")
       IN  \A i \in 1..Len(names) : Lower(names[i]) \in DOMAIN TYPE_MAP

\* a hint with "[" is well-bracketed, itself or under an Optional[...] wrapper
WellBracketed(h) ==
    LET t == Strip(h)
    IN  IF IsOptionalWrapper(t)
        THEN Contains(StripOptional(t), "[") => Bracketed(StripOptional(t))
        ELSE Bracketed(t)

\* C10: a hint with "[" and without "|" is accepted only when well-bracketed.
C10_WellBracketedOnly ==
    (Parsed /\ Contains(hint, "[") /\ ~Contains(hint, "|") /\ desc.ok)
        => WellBracketed(hint)

=============================================================================
